---- MODULE Spec2Model ----
(***************************************************************************)
(* Model of the saturating numeric cast of "ClampRawValue Traced Code.cpp": *)
(* FixedPoint::ClampRawValue -> saturated_cast -> SaturateFastOp or        *)
(* DstRangeRelationToSrcRange + saturated_cast_impl, with NarrowingRange.   *)
(*                                                                         *)
(* Numeric types are scaled down so that every value can be enumerated:    *)
(* three integer ranks (below int, int, above int), each signed and        *)
(* unsigned, and one binary floating-point type whose exponent range       *)
(* exceeds every integer type and whose mantissa is shorter than the wide  *)
(* integer types (as float is to int32/int64).                             *)
(*                                                                         *)
(* An integer value is the TLA+ integer itself.  A floating-point value is *)
(* an integer count of half units (h stands for h/2), so that values with  *)
(* a fractional part exist; Infinity and NaN are sentinels.                *)
(***************************************************************************)
EXTENDS Integers, FiniteSets, Sequences, TLC

\* Widths of the three integer ranks (rank of int is IntBits).
ShortBits == 5
IntBits == 6
LongBits == 7
\* Mantissa length and exponent range of the floating-point type.
FloatDigits == 5
FloatMaxExponent == 9

RECURSIVE Pow2Rec(_)
Pow2Rec(n) == IF n <= 0 THEN 1 ELSE 2 * Pow2Rec(n - 1)

\* 2^n, tabulated once.
Pow2Table == [n \in 0..(FloatMaxExponent + LongBits + 4) |-> Pow2Rec(n)]
Pow2(n) == Pow2Table[n]

Abs(x) == IF x < 0 THEN -x ELSE x

---------------------------------------------------------------------------
\* Type descriptors (std::numeric_limits, std::is_signed_v, ...).

IntType(s, b) == [kind |-> "int", is_signed |-> s, bits |-> b]
FloatType == [kind |-> "float", is_signed |-> TRUE, bits |-> 0]

IntegerTypes == {IntType(s, b) : s \in BOOLEAN, b \in {ShortBits, IntBits, LongBits}}
NumericTypes == IntegerTypes \cup {FloatType}

is_integral(T) == T.kind = "int"
is_floating_point(T) == T.kind = "float"
is_signed(T) == T.is_signed
make_unsigned(T) == IntType(FALSE, T.bits)
make_signed(T) == IntType(TRUE, T.bits)

\* Largest finite floating-point value, in half units.
FloatMaxH == (Pow2(FloatDigits) - 1) * Pow2(FloatMaxExponent - FloatDigits + 1)
Infinity == Pow2(FloatMaxExponent + 1)
NaN == Infinity + 1

digits(T) == IF is_floating_point(T) THEN FloatDigits
             ELSE IF is_signed(T) THEN T.bits - 1 ELSE T.bits

numeric_limits_max(T) == IF is_floating_point(T) THEN FloatMaxH
                         ELSE Pow2(digits(T)) - 1

numeric_limits_lowest(T) == IF is_floating_point(T) THEN -FloatMaxH
                            ELSE IF is_signed(T) THEN -Pow2(T.bits - 1) ELSE 0

has_infinity(T) == is_floating_point(T)
has_quiet_NaN(T) == is_floating_point(T)

\* Number of significant bits of a magnitude once trailing zero bits are
\* dropped: a half-unit count is a floating-point value iff this fits the
\* mantissa.
RECURSIVE BitLength(_)
BitLength(m) == IF m = 0 THEN 0 ELSE 1 + BitLength(m \div 2)

RECURSIVE StripZeros(_)
StripZeros(m) == IF m = 0 \/ m % 2 = 1 THEN m ELSE StripZeros(m \div 2)

IsFloatValue(h) == BitLength(StripZeros(Abs(h))) <= FloatDigits

FiniteFloats == {h \in (-FloatMaxH)..FloatMaxH : IsFloatValue(h)}
FloatValues == FiniteFloats \cup {Infinity, -Infinity, NaN}

\* Every value of a type.
Values(T) == IF is_floating_point(T) THEN FloatValues
             ELSE numeric_limits_lowest(T)..numeric_limits_max(T)

---------------------------------------------------------------------------
\* Conversions (static_cast and the implicit conversions of comparisons).

\* Integer conversion keeps the value modulo 2^bits.
Wrap(v, T) == IF is_signed(T)
              THEN ((v + Pow2(T.bits - 1)) % Pow2(T.bits)) - Pow2(T.bits - 1)
              ELSE v % Pow2(T.bits)

\* Round a magnitude in half units to the mantissa, to nearest, ties to even.
RoundMagnitude(m) ==
    IF BitLength(m) <= FloatDigits THEN m
    ELSE LET d == Pow2(BitLength(m) - FloatDigits)
             q == m \div d
             r == m % d
             up == (2 * r > d) \/ (2 * r = d /\ q % 2 = 1)
             rounded == (IF up THEN q + 1 ELSE q) * d
         IN  IF rounded > FloatMaxH THEN Infinity ELSE rounded

IntToFloat(v) == IF v < 0 THEN -RoundMagnitude(2 * (-v)) ELSE RoundMagnitude(2 * v)

\* Floating to integer discards the fractional part.
Truncate(h) == IF h < 0 THEN -((-h) \div 2) ELSE h \div 2

IsFinite(h) == h # NaN /\ h # Infinity /\ h # -Infinity

\* Floating to integer is defined only when the truncated value fits.
FloatToIntDefined(h, To) ==
    /\ IsFinite(h)
    /\ Truncate(h) >= numeric_limits_lowest(To)
    /\ Truncate(h) <= numeric_limits_max(To)

\* A conversion whose result the language defines.
Convert(v, From, To) ==
    IF is_floating_point(From)
    THEN IF is_floating_point(To) THEN v ELSE Truncate(v)
    ELSE IF is_floating_point(To) THEN IntToFloat(v) ELSE Wrap(v, To)

\* static_cast<To>(v): the set of values it may produce.  An out-of-range
\* floating to integer conversion is undefined: any value of To.
static_cast(v, From, To) ==
    IF is_floating_point(From) /\ is_integral(To) /\ ~FloatToIntDefined(v, To)
    THEN Values(To)
    ELSE {Convert(v, From, To)}

\* Integral promotion and the usual arithmetic conversions:
\* decltype(Src() + Dst()).
IntegralPromotion(T) == IF T.bits < IntBits THEN IntType(TRUE, IntBits) ELSE T

Promotion(A, B) ==
    IF is_floating_point(A) \/ is_floating_point(B) THEN FloatType
    ELSE LET a == IntegralPromotion(A)
             b == IntegralPromotion(B)
         IN  IF a = b THEN a
             ELSE IF a.is_signed = b.is_signed
                  THEN (IF a.bits >= b.bits THEN a ELSE b)
                  ELSE LET u == IF a.is_signed THEN b ELSE a
                           s == IF a.is_signed THEN a ELSE b
                       IN  IF u.bits >= s.bits THEN u ELSE s

\* The built-in comparisons a <= b, a >= b, a > b, a == b of two operands of
\* types A and B: both are converted to the common type; a comparison with
\* NaN is false.
Ordered(x, y, C) == is_integral(C) \/ (x # NaN /\ y # NaN)

Le(a, A, b, B) == LET C == Promotion(A, B)
                      x == Convert(a, A, C)
                      y == Convert(b, B, C)
                  IN  Ordered(x, y, C) /\ x <= y

Ge(a, A, b, B) == Le(b, B, a, A)

Gt(a, A, b, B) == LET C == Promotion(A, B)
                      x == Convert(a, A, C)
                      y == Convert(b, B, C)
                  IN  Ordered(x, y, C) /\ x > y

Eq(a, A, b, B) == LET C == Promotion(A, B)
                      x == Convert(a, A, C)
                      y == Convert(b, B, C)
                  IN  Ordered(x, y, C) /\ x = y

---------------------------------------------------------------------------
\* Saturation policies.  saturated_cast hands its SaturationHandler to the
\* classifier as the Bounds provider, so a policy supplies max() and lowest()
\* as well as the three substituted values.  numeric_limits is the
\* classifier's own default
\* Bounds; the other two are handlers a caller supplies: one that keeps the
\* standard bounds and substitutes its own values, one with bounds of its own.

StandardBounds == {"numeric_limits", "SaturationDefaultLimits", "CustomValues"}
SaturationHandlers == {"SaturationDefaultLimits", "CustomValues", "CustomBounds"}

\* A small integer constant as a value of T.
Const(n, T) == IF is_floating_point(T) THEN 2 * n ELSE n

BoundsMax(S, T) == IF S \in StandardBounds THEN numeric_limits_max(T) ELSE Const(10, T)

BoundsLowest(S, T) == IF S \in StandardBounds THEN numeric_limits_lowest(T) ELSE Const(1, T)

SaturationDefaultLimits_NaN(T) == IF has_quiet_NaN(T) THEN NaN ELSE 0

SaturationDefaultLimits_Overflow(T) == IF has_infinity(T) THEN Infinity ELSE numeric_limits_max(T)

SaturationDefaultLimits_Underflow(T) == IF has_infinity(T) THEN -Infinity ELSE numeric_limits_lowest(T)

Overflow(S, T) == IF S = "SaturationDefaultLimits" THEN SaturationDefaultLimits_Overflow(T)
                  ELSE IF S = "CustomValues" THEN Const(7, T) ELSE Const(10, T)

Underflow(S, T) == IF S = "SaturationDefaultLimits" THEN SaturationDefaultLimits_Underflow(T)
                   ELSE IF S = "CustomValues" THEN Const(3, T) ELSE Const(1, T)

PolicyNaN(S, T) == IF S = "SaturationDefaultLimits" THEN SaturationDefaultLimits_NaN(T)
                   ELSE IF S = "CustomValues" THEN Const(5, T) ELSE Const(11, T)

---------------------------------------------------------------------------
\* Helpers of the range machinery.

IsValueNegative(value, T) == IF is_signed(T) THEN value < 0 ELSE FALSE

\* SafeUnsignedAbs: the magnitude, computed in make_unsigned_t<T>.
SafeUnsignedAbs(value, T) ==
    IF IsValueNegative(value, T)
    THEN Wrap(0 - Wrap(value, make_unsigned(T)), make_unsigned(T))
    ELSE Wrap(value, make_unsigned(T))

\* x ^ mask for a mask of all ones or all zeros, in an unsigned type of w bits.
XorFill(x, ones, w) == IF ones THEN (Pow2(w) - 1) - x ELSE x

\* Mutant of ConditionalNegate: the bits are inverted and one is not added.
ConditionalNegate_OnesComplement(x, is_negative, T) ==
    Wrap(XorFill(Wrap(x, make_unsigned(T)), is_negative, T.bits), make_signed(T))

\* ConditionalNegate(x, is_negative) for x of integer type T:
\* ((unsigned)x ^ (unsigned)-is_negative) + is_negative, as make_signed_t<T>.
ConditionalNegate(x, is_negative, T) ==
    Wrap(XorFill(Wrap(x, make_unsigned(T)), is_negative, T.bits)
             + (IF is_negative THEN 1 ELSE 0),
         make_signed(T))

kMaxExponent(T) == IF is_floating_point(T) THEN FloatMaxExponent ELSE digits(T) + 1

\* Mutant of kShift: the bound is never adjusted.
kShift_Zero(Dst, Src) == 0

\* NarrowingRange<Dst, Src, Bounds>.
kShift(Dst, Src) ==
    IF kMaxExponent(Src) > kMaxExponent(Dst) /\ digits(Src) < digits(Dst)
    THEN digits(Dst) - digits(Src)
    ELSE 0

\* x & ~((1 << k) - 1) for a non-negative x: the low k bits are cleared.
ClearLowBits(x, k) == x - (x % Pow2(k))

\* Adjust(value) for value of type Dst.  The masked magnitude has the type
\* of the & expression, make_unsigned_t<Dst> after integral promotion.
Adjust(value, Dst, Src) ==
    IF is_integral(Dst)
    THEN Wrap(ConditionalNegate(ClearLowBits(SafeUnsignedAbs(value, Dst), kShift(Dst, Src)),
                                IsValueNegative(value, Dst),
                                IntegralPromotion(make_unsigned(Dst))),
              Dst)
    ELSE value

NarrowingRange_max(Dst, Src, Bounds) == Adjust(BoundsMax(Bounds, Dst), Dst, Src)

NarrowingRange_lowest(Dst, Src, Bounds) == Adjust(BoundsLowest(Bounds, Dst), Dst, Src)

\* Mutant of kStaticDstRangeRelationToSrcRange: the primary rule decides
\* every combination of signs.
kStaticDstRangeRelationToSrcRange_PrimaryOnly(Dst, Src) ==
    IF kMaxExponent(Dst) >= kMaxExponent(Src) THEN "kContained" ELSE "kNotContained"

\* Mutant of kStaticDstRangeRelationToSrcRange: the signed to unsigned
\* specialization is missing, so the primary rule decides that case too.
kStaticDstRangeRelationToSrcRange_NoSignedToUnsigned(Dst, Src) ==
    IF is_signed(Dst) /\ ~is_signed(Src)
    THEN (IF kMaxExponent(Dst) > kMaxExponent(Src) THEN "kContained" ELSE "kNotContained")
    ELSE (IF kMaxExponent(Dst) >= kMaxExponent(Src) THEN "kContained" ELSE "kNotContained")

kStaticDstRangeRelationToSrcRange(Dst, Src) ==
    IF is_signed(Dst) /\ ~is_signed(Src)
    THEN (IF kMaxExponent(Dst) > kMaxExponent(Src) THEN "kContained" ELSE "kNotContained")
    ELSE IF ~is_signed(Dst) /\ is_signed(Src)
         THEN "kNotContained"
         ELSE (IF kMaxExponent(Dst) >= kMaxExponent(Src) THEN "kContained" ELSE "kNotContained")

\* class RangeCheck.
RangeCheck(is_in_lower_bound, is_in_upper_bound) ==
    [is_underflow_ |-> ~is_in_lower_bound, is_overflow_ |-> ~is_in_upper_bound]

DefaultRangeCheck == [is_underflow_ |-> FALSE, is_overflow_ |-> FALSE]

IsValid(c) == ~c.is_overflow_ /\ ~c.is_underflow_
IsInvalid(c) == c.is_overflow_ /\ c.is_underflow_
IsOverflowFlagSet(c) == c.is_overflow_
IsUnderflowFlagSet(c) == c.is_underflow_

---------------------------------------------------------------------------
\* The range classifier.  Each Check is the set of RangeCheck values the
\* call may return: one value, unless it evaluates an undefined conversion.

\* Primary template: Dst statically contains Src.
Check_Contained(value, Dst, Src, Bounds) ==
    {RangeCheck(Ge(lo, Dst, NarrowingRange_lowest(Dst, Src, Bounds), Dst)
                    \/ Ge(cv, Dst, NarrowingRange_lowest(Dst, Src, Bounds), Dst),
                Le(hi, Dst, NarrowingRange_max(Dst, Src, Bounds), Dst)
                    \/ Le(cv, Dst, NarrowingRange_max(Dst, Src, Bounds), Dst)) :
        lo \in static_cast(numeric_limits_lowest(Src), Src, Dst),
        hi \in static_cast(numeric_limits_max(Src), Src, Dst),
        cv \in static_cast(value, Src, Dst)}

\* Mutant of Check_SignedToSigned: the upper bound itself is out of range.
Check_SignedToSigned_StrictMax(value, Dst, Src, Bounds) ==
    {RangeCheck(Ge(value, Src, NarrowingRange_lowest(Dst, Src, Bounds), Dst),
                Gt(NarrowingRange_max(Dst, Src, Bounds), Dst, value, Src))}

\* Signed to signed narrowing.
Check_SignedToSigned(value, Dst, Src, Bounds) ==
    {RangeCheck(Ge(value, Src, NarrowingRange_lowest(Dst, Src, Bounds), Dst),
                Le(value, Src, NarrowingRange_max(Dst, Src, Bounds), Dst))}

\* Unsigned to unsigned narrowing.
Check_UnsignedToUnsigned(value, Dst, Src, Bounds) ==
    {RangeCheck(NarrowingRange_lowest(Dst, Src, Bounds) = 0
                    \/ Ge(value, Src, NarrowingRange_lowest(Dst, Src, Bounds), Dst),
                Le(value, Src, NarrowingRange_max(Dst, Src, Bounds), Dst))}

\* Unsigned to signed.
Check_UnsignedToSigned(value, Dst, Src, Bounds) ==
    LET P == Promotion(Src, Dst)
    IN  {RangeCheck(NarrowingRange_lowest(Dst, Src, Bounds) <= 0
                        \/ Ge(Convert(value, Src, P), P,
                              Convert(NarrowingRange_lowest(Dst, Src, Bounds), Dst, P), P),
                    Le(Convert(value, Src, P), P,
                       Convert(NarrowingRange_max(Dst, Src, Bounds), Dst, P), P))}

\* Mutant of Check_SignedToUnsigned: the upper bound is compared after
\* converting to the unsigned destination's promoted type, whatever the
\* rank of Src, and without the static test of the source's maximum.
Check_SignedToUnsigned_AsUnsigned(value, Dst, Src, Bounds) ==
    LET P == IntegralPromotion(Dst)
        U == IF is_floating_point(Src) THEN FloatType
             ELSE IF P.is_signed THEN make_unsigned(P) ELSE P
        ge_zero == IF is_floating_point(Src)
                   THEN Gt(value, Src, Const(-1, Src), Src)
                   ELSE Ge(value, Src, 0, Src)
        in_lower == IF ~ge_zero THEN {FALSE}
                    ELSE IF NarrowingRange_lowest(Dst, Src, Bounds) = 0 THEN {TRUE}
                    ELSE {Ge(cv, Dst, NarrowingRange_lowest(Dst, Src, Bounds), Dst) :
                            cv \in static_cast(value, Src, Dst)}
        in_upper == Le(Convert(value, Src, U), U,
                       Convert(NarrowingRange_max(Dst, Src, Bounds), Dst, U), U)
    IN  {RangeCheck(lower, in_upper) : lower \in in_lower}

\* Signed to unsigned.
Check_SignedToUnsigned(value, Dst, Src, Bounds) ==
    LET P == Promotion(Src, Dst)
        ge_zero == IF is_floating_point(Src)
                   THEN Gt(value, Src, Const(-1, Src), Src)
                   ELSE Ge(value, Src, 0, Src)
        in_lower == IF ~ge_zero THEN {FALSE}
                    ELSE IF NarrowingRange_lowest(Dst, Src, Bounds) = 0 THEN {TRUE}
                    ELSE {Ge(cv, Dst, NarrowingRange_lowest(Dst, Src, Bounds), Dst) :
                            cv \in static_cast(value, Src, Dst)}
        in_upper == Le(Convert(numeric_limits_max(Src), Src, P), P,
                       Convert(NarrowingRange_max(Dst, Src, Bounds), Dst, P), P)
                    \/ Le(Convert(value, Src, P), P,
                          Convert(NarrowingRange_max(Dst, Src, Bounds), Dst, P), P)
    IN  {RangeCheck(lower, in_upper) : lower \in in_lower}

\* DstRangeRelationToSrcRange<Dst, Bounds>(value): the specialization is
\* selected by the two signs and the static relation.
DstRangeRelationToSrcRange(value, Dst, Src, Bounds) ==
    IF kStaticDstRangeRelationToSrcRange(Dst, Src) = "kContained"
    THEN Check_Contained(value, Dst, Src, Bounds)
    ELSE IF is_signed(Dst) /\ is_signed(Src) THEN Check_SignedToSigned(value, Dst, Src, Bounds)
    ELSE IF ~is_signed(Dst) /\ ~is_signed(Src) THEN Check_UnsignedToUnsigned(value, Dst, Src, Bounds)
    ELSE IF is_signed(Dst) THEN Check_UnsignedToSigned(value, Dst, Src, Bounds)
    ELSE Check_SignedToUnsigned(value, Dst, Src, Bounds)

---------------------------------------------------------------------------
\* Mutant of saturated_cast_impl: a set overflow flag always gives Overflow().
saturated_cast_impl_NoNaN(value, constraint, Dst, S, Src) ==
    IF ~IsOverflowFlagSet(constraint)
    THEN IF ~IsUnderflowFlagSet(constraint)
         THEN {[result |-> r, invoked |-> {}] : r \in static_cast(value, Src, Dst)}
         ELSE {[result |-> Underflow(S, Dst), invoked |-> {"Underflow"}]}
    ELSE {[result |-> Overflow(S, Dst), invoked |-> {"Overflow"}]}

\* Mutant of saturated_cast_impl: both flags give NaN() whatever the kind of
\* Src.
saturated_cast_impl_NaNForIntegral(value, constraint, Dst, S, Src) ==
    IF ~IsOverflowFlagSet(constraint)
    THEN IF ~IsUnderflowFlagSet(constraint)
         THEN {[result |-> r, invoked |-> {}] : r \in static_cast(value, Src, Dst)}
         ELSE {[result |-> Underflow(S, Dst), invoked |-> {"Underflow"}]}
    ELSE IF ~IsUnderflowFlagSet(constraint)
         THEN {[result |-> Overflow(S, Dst), invoked |-> {"Overflow"}]}
         ELSE {[result |-> PolicyNaN(S, Dst), invoked |-> {"NaN"}]}

\* saturated_cast_impl: the set of outcomes, each the value returned and
\* the policy functions evaluated to produce it.
saturated_cast_impl(value, constraint, Dst, S, Src) ==
    IF ~IsOverflowFlagSet(constraint)
    THEN IF ~IsUnderflowFlagSet(constraint)
         THEN {[result |-> r, invoked |-> {}] : r \in static_cast(value, Src, Dst)}
         ELSE {[result |-> Underflow(S, Dst), invoked |-> {"Underflow"}]}
    ELSE IF is_integral(Src) \/ ~IsUnderflowFlagSet(constraint)
         THEN {[result |-> Overflow(S, Dst), invoked |-> {"Overflow"}]}
         ELSE {[result |-> PolicyNaN(S, Dst), invoked |-> {"NaN"}]}

\* An undefined conversion is evaluated by the classification of value or by
\* the final static_cast<Dst>(value).  Such a call is not a constant
\* expression: it cannot be constant-evaluated.
UndefinedCast(v, From, To) ==
    is_floating_point(From) /\ is_integral(To) /\ ~FloatToIntDefined(v, To)

EvaluatesUndefinedCast(value, Dst, Src, Bounds) ==
    \/ /\ kStaticDstRangeRelationToSrcRange(Dst, Src) = "kContained"
       /\ \/ UndefinedCast(numeric_limits_lowest(Src), Src, Dst)
          \/ UndefinedCast(numeric_limits_max(Src), Src, Dst)
          \/ /\ UndefinedCast(value, Src, Dst)
             /\ \E lo \in static_cast(numeric_limits_lowest(Src), Src, Dst),
                    hi \in static_cast(numeric_limits_max(Src), Src, Dst) :
                    \/ ~Ge(lo, Dst, NarrowingRange_lowest(Dst, Src, Bounds), Dst)
                    \/ ~Le(hi, Dst, NarrowingRange_max(Dst, Src, Bounds), Dst)
    \/ /\ kStaticDstRangeRelationToSrcRange(Dst, Src) = "kNotContained"
       /\ ~is_signed(Dst) /\ is_signed(Src)
       /\ Gt(value, Src, Const(-1, Src), Src)
       /\ NarrowingRange_lowest(Dst, Src, Bounds) # 0
       /\ UndefinedCast(value, Src, Dst)
    \/ /\ UndefinedCast(value, Src, Dst)
       /\ \E c \in DstRangeRelationToSrcRange(value, Dst, Src, Bounds) : IsValid(c)

---------------------------------------------------------------------------
\* The accelerated path for integer pairs (the build without
\* SaturateFastAsmOp, whose generic SaturateFastOp specialization is used).

\* The value in half units, whatever its type: the scale on which values of
\* different types compare by their mathematical value.
HalfUnits(v, T) == IF is_floating_point(T) THEN v ELSE 2 * v

\* IsGreaterOrEqual<L, R>::Test and IsLessOrEqual<L, R>::Test compare by value.
IsGreaterOrEqual_Test(lhs, L, rhs, R) ==
    lhs # NaN /\ rhs # NaN /\ HalfUnits(lhs, L) >= HalfUnits(rhs, R)

IsLessOrEqual_Test(lhs, L, rhs, R) ==
    lhs # NaN /\ rhs # NaN /\ HalfUnits(lhs, L) <= HalfUnits(rhs, R)

kIsMaxInRangeForNumericType(Dst, Src) ==
    IsGreaterOrEqual_Test(numeric_limits_max(Dst), Dst, numeric_limits_max(Src), Src)

kIsMinInRangeForNumericType(Dst, Src) ==
    IsLessOrEqual_Test(numeric_limits_lowest(Dst), Dst, numeric_limits_lowest(Src), Src)

kCommonMax(Dst, Src) ==
    IF kIsMaxInRangeForNumericType(Dst, Src)
    THEN Convert(numeric_limits_max(Src), Src, Dst)
    ELSE numeric_limits_max(Dst)

kCommonMin(Dst, Src) ==
    IF kIsMinInRangeForNumericType(Dst, Src)
    THEN Convert(numeric_limits_lowest(Src), Src, Dst)
    ELSE numeric_limits_lowest(Dst)

CommonMaxOrMin(is_min, Dst, Src) == IF is_min THEN kCommonMin(Dst, Src) ELSE kCommonMax(Dst, Src)

kIsTypeInRangeForNumericType(Dst, Src) ==
    kStaticDstRangeRelationToSrcRange(Dst, Src) = "kContained"

as_unsigned(v, T) == Wrap(v, make_unsigned(T))

\* Which IsValueInRangeFastOp specialization applies, if any.
IsValueInRangeFastOp_is_supported(Dst, Src) ==
    /\ is_integral(Dst) /\ is_integral(Src)
    /\ is_signed(Src)
    /\ ~kIsTypeInRangeForNumericType(Dst, Src)

\* Mutant of IsValueInRangeFastOp_Do: the signed to unsigned comparison is
\* made on the signed values.
IsValueInRangeFastOp_Do_SignedCompare(value, Dst, Src) ==
    IF is_signed(Dst)
    THEN Eq(value, Src, Convert(value, Src, Dst), Dst)
    ELSE Le(value, Src, kCommonMax(Src, Dst), Src)

IsValueInRangeFastOp_Do(value, Dst, Src) ==
    IF is_signed(Dst)
    THEN \* value == static_cast<Dst>(value)
         Eq(value, Src, Convert(value, Src, Dst), Dst)
    ELSE \* as_unsigned(value) <= as_unsigned(kCommonMax<Src, Dst>)
         Le(as_unsigned(value, Src), make_unsigned(Src),
            as_unsigned(kCommonMax(Src, Dst), Src), make_unsigned(Src))

IsValueInRangeForNumericType(value, Dst, Src) ==
    IF IsValueInRangeFastOp_is_supported(Dst, Src)
    THEN IsValueInRangeFastOp_Do(value, Dst, Src)
    ELSE \A c \in DstRangeRelationToSrcRange(value, Dst, Src, "numeric_limits") : IsValid(c)

SaturateFastOp_is_supported(Dst, Src) == is_integral(Src) /\ is_integral(Dst)

\* Mutant of SaturateFastOp_Do: the sign of the value is not consulted.
SaturateFastOp_Do_IgnoresSign(value, Dst, Src) ==
    LET saturated == CommonMaxOrMin(kIsMaxInRangeForNumericType(Dst, Src)
                                        \/ ~kIsMinInRangeForNumericType(Dst, Src),
                                    Dst, Src)
    IN  IF IsValueInRangeForNumericType(value, Dst, Src)
        THEN Convert(value, Src, Dst)
        ELSE saturated

SaturateFastOp_Do(value, Dst, Src) ==
    LET saturated == CommonMaxOrMin(kIsMaxInRangeForNumericType(Dst, Src)
                                        \/ (~kIsMinInRangeForNumericType(Dst, Src)
                                            /\ IsValueNegative(value, Src)),
                                    Dst, Src)
    IN  IF IsValueInRangeForNumericType(value, Dst, Src)
        THEN Convert(value, Src, Dst)
        ELSE saturated

---------------------------------------------------------------------------
\* One call of saturated_cast<Dst, SaturationHandler>(value).

VARIABLES
    Dst,                    \* destination type
    Src,                    \* source type (the underlying type of the argument)
    SaturationHandler,      \* the policy template argument
    value,                  \* the argument
    is_constant_evaluated,  \* std::is_constant_evaluated() at the call
    pc,                     \* "call" before the call returns; "done" after
                            \* saturated_cast, "checked" after the range test
    path,                   \* which branch produced the result
    constraint,             \* the RangeCheck handed to saturated_cast_impl
    invoked,                \* the policy functions evaluated
    result,                 \* the value returned
    in_range                \* what IsValueInRangeForNumericType returned

vars == <<Dst, Src, SaturationHandler, value, is_constant_evaluated,
          pc, path, constraint, invoked, result, in_range>>

Init ==
    /\ Dst \in NumericTypes
    /\ Src \in NumericTypes
    /\ SaturationHandler \in SaturationHandlers
    /\ value \in Values(Src)
    /\ is_constant_evaluated \in BOOLEAN
    /\ pc = "call"
    /\ path = "none"
    /\ constraint = DefaultRangeCheck
    /\ invoked = {}
    /\ result = 0
    /\ in_range = FALSE

\* Mutant of UsesFastOp: the policy is not consulted.
UsesFastOp_AnyPolicy(D, S, H, ce) == ~ce /\ SaturateFastOp_is_supported(D, S)

\* The condition of the conditional expression in saturated_cast.
UsesFastOp(D, S, H, ce) ==
    ~ce /\ SaturateFastOp_is_supported(D, S) /\ H = "SaturationDefaultLimits"

\* saturated_cast, accelerated branch.
SaturatedCastFast ==
    /\ pc = "call"
    /\ UsesFastOp(Dst, Src, SaturationHandler, is_constant_evaluated)
    /\ result' = SaturateFastOp_Do(value, Dst, Src)
    /\ path' = "SaturateFastOp"
    /\ pc' = "done"
    /\ UNCHANGED <<Dst, Src, SaturationHandler, value, is_constant_evaluated,
                   constraint, invoked, in_range>>

\* saturated_cast, general branch: classify, then resolve with the policy.
\* A constant-evaluated call that would evaluate an undefined conversion is
\* rejected by the compiler and returns nothing.
SaturatedCastGeneral ==
    /\ pc = "call"
    /\ ~UsesFastOp(Dst, Src, SaturationHandler, is_constant_evaluated)
    /\ is_constant_evaluated => ~EvaluatesUndefinedCast(value, Dst, Src, SaturationHandler)
    /\ \E c \in DstRangeRelationToSrcRange(value, Dst, Src, SaturationHandler) :
         \E out \in saturated_cast_impl(value, c, Dst, SaturationHandler, Src) :
            /\ constraint' = c
            /\ result' = out.result
            /\ invoked' = out.invoked
    /\ path' = "saturated_cast_impl"
    /\ pc' = "done"
    /\ UNCHANGED <<Dst, Src, SaturationHandler, value, is_constant_evaluated, in_range>>

\* One call of IsValueInRangeForNumericType<Dst>(value), in place of the cast.
IsValueInRangeCall ==
    /\ pc = "call"
    /\ in_range' = IsValueInRangeForNumericType(value, Dst, Src)
    /\ path' = IF IsValueInRangeFastOp_is_supported(Dst, Src)
               THEN "IsValueInRangeFastOp"
               ELSE "DstRangeRelationToSrcRange"
    /\ pc' = "checked"
    /\ UNCHANGED <<Dst, Src, SaturationHandler, value, is_constant_evaluated,
                   constraint, invoked, result>>

Next == SaturatedCastFast \/ SaturatedCastGeneral \/ IsValueInRangeCall

Spec == Init /\ [][Next]_vars

---------------------------------------------------------------------------
\* Vocabulary of the properties.

Done == pc = "done"

DefaultPolicy == SaturationHandler = "SaturationDefaultLimits"

\* value compared with the limits of Dst by mathematical value.
AboveDstMax ==
    value # NaN /\ HalfUnits(value, Src) > HalfUnits(numeric_limits_max(Dst), Dst)

BelowDstLowest ==
    value # NaN /\ HalfUnits(value, Src) < HalfUnits(numeric_limits_lowest(Dst), Dst)

WithinDstRange ==
    /\ value # NaN
    /\ HalfUnits(value, Src) >= HalfUnits(numeric_limits_lowest(Dst), Dst)
    /\ HalfUnits(value, Src) <= HalfUnits(numeric_limits_max(Dst), Dst)

IsType(T, s, b) == is_integral(T) /\ T.is_signed = s /\ T.bits = b

---------------------------------------------------------------------------
\* C1: for every Src/Dst pair and every policy, a value above the
\* destination's maximum is converted to the policy's Overflow() value
\* (stated here for the integer destinations, whose maximum is
\* numeric_limits<Dst>::max()).
C1_AboveMaxGivesOverflow ==
    (Done /\ is_integral(Dst) /\ AboveDstMax) => result = Overflow(SaturationHandler, Dst)

C3_InRangeRoundTrips ==
    (Done /\ DefaultPolicy /\ WithinDstRange)
        => /\ invoked = {}
           /\ static_cast(result, Dst, Src) = {value}

\* C3 amended: an in-range value is never substituted; the result is the
\* value converted to Dst, which is the value itself between integer types,
\* the value without its fractional part from floating point to integer,
\* and the nearest floating-point value from integer to floating point.
C3_InRangeConverts ==
    (Done /\ DefaultPolicy /\ WithinDstRange)
        => /\ invoked = {}
           /\ result = Convert(value, Src, Dst)
           /\ (is_integral(Src) /\ is_integral(Dst)) => result = value
           /\ (is_floating_point(Src) /\ is_integral(Dst)) => result = Truncate(value)
           /\ (is_integral(Src) /\ is_floating_point(Dst))
                => /\ IsFloatValue(result)
                   /\ \A f \in FiniteFloats :
                        Abs(f - 2 * value) >= Abs(result - 2 * value)

\* C3 witness: an in-range integer reached the destination unchanged through
\* the general path, and an in-range fraction was truncated.
C3_Witness ==
    /\ Done /\ DefaultPolicy /\ WithinDstRange
    /\ path = "saturated_cast_impl"
    /\ is_floating_point(Src) /\ is_integral(Dst)
    /\ value = 5 /\ result = 2

\* C4: a floating-point NaN converted to an integer type sets both flags and
\* gives the policy's NaN() value, zero under the default policy, for a
\* signed and for an unsigned destination.
C4_NaNGivesPolicyNaN ==
    (Done /\ is_floating_point(Src) /\ value = NaN /\ is_integral(Dst))
        => /\ path = "saturated_cast_impl"
           /\ IsInvalid(constraint)
           /\ invoked = {"NaN"}
           /\ result = PolicyNaN(SaturationHandler, Dst)
           /\ DefaultPolicy => result = 0

\* C4 witness: NaN went to an unsigned destination under the default policy.
C4_Witness ==
    /\ Done /\ is_floating_point(Src) /\ value = NaN
    /\ is_integral(Dst) /\ ~is_signed(Dst) /\ DefaultPolicy
    /\ IsInvalid(constraint) /\ result = 0

IntegerPair == is_integral(Src) /\ is_integral(Dst)

GeneralPath == path = "saturated_cast_impl"

\* C5: when an integer Dst statically contains an integer Src, the general
\* path finds every value in range, and saturated_cast<Dst>(v) is
\* static_cast<Dst>(v), the value itself, with no policy function evaluated.
C5_ContainedIsStaticCast ==
    (Done /\ IntegerPair /\ DefaultPolicy
          /\ kStaticDstRangeRelationToSrcRange(Dst, Src) = "kContained")
        => /\ invoked = {}
           /\ result = Convert(value, Src, Dst)
           /\ result = value
           /\ \A c \in DstRangeRelationToSrcRange(value, Dst, Src, SaturationHandler) :
                /\ IsValid(c)
                /\ \A o \in saturated_cast_impl(value, c, Dst, SaturationHandler, Src) :
                     o.invoked = {} /\ o.result = value

\* C5 witness: a negative value was widened on the general path.
C5_Witness ==
    /\ Done /\ IntegerPair /\ DefaultPolicy /\ GeneralPath
    /\ kStaticDstRangeRelationToSrcRange(Dst, Src) = "kContained"
    /\ Dst.bits > Src.bits /\ value < 0 /\ result = value /\ IsValid(constraint)

\* C6: for every integer pair and every value, SaturateFastOp::Do returns
\* what the general path returns under the default policy, so the call gives
\* the same result at run time and when constant-evaluated.
C6_FastOpEqualsGeneralPath ==
    (Done /\ IntegerPair)
        => /\ \A c \in DstRangeRelationToSrcRange(value, Dst, Src, "SaturationDefaultLimits") :
                \A o \in saturated_cast_impl(value, c, Dst, "SaturationDefaultLimits", Src) :
                    o.result = SaturateFastOp_Do(value, Dst, Src)
           /\ DefaultPolicy => result = SaturateFastOp_Do(value, Dst, Src)

\* C6 witness: the largest value of the widest signed type went to the
\* narrowest unsigned type on the accelerated path and became its maximum.
C6_Witness ==
    /\ Done /\ DefaultPolicy /\ path = "SaturateFastOp"
    /\ IsType(Src, TRUE, LongBits) /\ IsType(Dst, FALSE, ShortBits)
    /\ value = numeric_limits_max(Src) /\ result = numeric_limits_max(Dst)

\* C7: the accelerated path is taken exactly when it is supported for the
\* pair, the policy is the default one and the call is not constant-evaluated;
\* otherwise the result is the general path's, and a custom policy on an
\* integer pair gives its own Overflow()/Underflow() for an out-of-range
\* value, never the default maximum or lowest value.
C7_FastOpOnlyWhenAllowed ==
    Done
        => /\ (path = "SaturateFastOp")
                <=> (~is_constant_evaluated /\ IntegerPair /\ DefaultPolicy)
           /\ (path # "SaturateFastOp")
                => /\ GeneralPath
                   /\ constraint \in DstRangeRelationToSrcRange(value, Dst, Src, SaturationHandler)
                   /\ [result |-> result, invoked |-> invoked]
                        \in saturated_cast_impl(value, constraint, Dst, SaturationHandler, Src)
           /\ (IntegerPair /\ ~DefaultPolicy /\ ~WithinDstRange)
                => /\ result \in {Overflow(SaturationHandler, Dst),
                                  Underflow(SaturationHandler, Dst)}
                   /\ result \notin {numeric_limits_max(Dst), numeric_limits_lowest(Dst)}
                   /\ AboveDstMax => result = Overflow(SaturationHandler, Dst)

\* C7 witness: a run-time call with a custom policy took the general path
\* and an overflowing value became the policy's Overflow() value.
C7_Witness ==
    /\ Done /\ ~is_constant_evaluated /\ SaturationHandler = "CustomValues"
    /\ GeneralPath
    /\ IsType(Src, TRUE, LongBits) /\ IsType(Dst, FALSE, ShortBits)
    /\ value = numeric_limits_max(Src) /\ result = 7 /\ invoked = {"Overflow"}

\* C8: from a floating-point Src to an integer Dst with more digits, the
\* bound compared against is NarrowingRange::max(), exactly representable in
\* Src; the value 2^digits(Dst), which is Dst's maximum rounded to Src, is
\* classified as overflow, and no value classified in range truncates to an
\* integer above Dst's maximum.
C8_RoundedMaxOverflows ==
    (Done /\ GeneralPath /\ is_floating_point(Src) /\ is_integral(Dst)
          /\ digits(Dst) > digits(Src))
        => /\ kShift(Dst, Src) = digits(Dst) - digits(Src)
           /\ IntToFloat(NarrowingRange_max(Dst, Src, SaturationHandler))
                = 2 * NarrowingRange_max(Dst, Src, SaturationHandler)
           /\ IntToFloat(numeric_limits_max(Dst)) = 2 * Pow2(digits(Dst))
           /\ (value = 2 * Pow2(digits(Dst)))
                => /\ IsOverflowFlagSet(constraint)
                   /\ ~IsUnderflowFlagSet(constraint)
                   /\ result = Overflow(SaturationHandler, Dst)
           /\ IsValid(constraint)
                => /\ IsFinite(value)
                   /\ Truncate(value) <= numeric_limits_max(Dst)
                   /\ result = Truncate(value)

\* C8 witness: 2^digits went to the widest unsigned type and saturated.
C8_Witness ==
    /\ Done /\ GeneralPath /\ DefaultPolicy
    /\ is_floating_point(Src) /\ IsType(Dst, FALSE, LongBits)
    /\ value = 2 * Pow2(LongBits)
    /\ IsOverflowFlagSet(constraint) /\ result = Pow2(LongBits) - 1

\* C9: NarrowingRange only narrows: for every Dst, Src and bounds provider
\* its max() is at most Bounds<Dst>::max() and its lowest() is at least
\* Bounds<Dst>::lowest(), so a value reported in range converts to a Dst
\* value within the provider's bounds.
C9_AdjusterOnlyNarrows ==
    (Done /\ GeneralPath)
        => /\ NarrowingRange_max(Dst, Src, SaturationHandler)
                <= BoundsMax(SaturationHandler, Dst)
           /\ NarrowingRange_lowest(Dst, Src, SaturationHandler)
                >= BoundsLowest(SaturationHandler, Dst)
           /\ (is_integral(Dst) /\ IsValid(constraint))
                => /\ result >= BoundsLowest(SaturationHandler, Dst)
                   /\ result <= BoundsMax(SaturationHandler, Dst)

RangeChecks == {RangeCheck(l, u) : l \in BOOLEAN, u \in BOOLEAN}

\* The outcome saturated_cast_impl is to produce for a classifier result c.
Resolved(c, r, inv) ==
    IF ~IsOverflowFlagSet(c) /\ ~IsUnderflowFlagSet(c)
    THEN inv = {} /\ r \in static_cast(value, Src, Dst)
    ELSE IF ~IsOverflowFlagSet(c)
         THEN inv = {"Underflow"} /\ r = Underflow(SaturationHandler, Dst)
         ELSE IF ~IsUnderflowFlagSet(c)
              THEN inv = {"Overflow"} /\ r = Overflow(SaturationHandler, Dst)
              ELSE IF is_floating_point(Src)
                   THEN inv = {"NaN"} /\ r = PolicyNaN(SaturationHandler, Dst)
                   ELSE inv = {"Overflow"} /\ r = Overflow(SaturationHandler, Dst)

\* C11: saturated_cast_impl resolves the classifier result in order: no flag
\* gives the value cast to Dst; underflow alone gives Underflow(); overflow
\* alone gives Overflow(); both give NaN() for a floating-point Src and
\* Overflow() for an integral Src.  Every input gets exactly one of the four
\* outcomes: at most one policy function is evaluated, and the outcome is
\* unique whenever the cast of the value is defined.
C11_ImplResolvesInOrder ==
    Done
        => /\ GeneralPath => Resolved(constraint, result, invoked)
           /\ (GeneralPath /\ IsValid(constraint))
                => /\ ~UndefinedCast(value, Src, Dst)
                   /\ result = Convert(value, Src, Dst)
           /\ Cardinality(invoked) <= 1
           /\ \A c \in RangeChecks :
                LET outs == saturated_cast_impl(value, c, Dst, SaturationHandler, Src)
                IN  /\ outs # {}
                    /\ \A o \in outs : Resolved(c, o.result, o.invoked)
                    /\ (IsValid(c) /\ UndefinedCast(value, Src, Dst))
                         \/ Cardinality(outs) = 1

\* C11 witness: both flags were set for an integral Src and the call
\* returned the policy's Overflow().
C11_Witness ==
    /\ Done /\ GeneralPath /\ is_integral(Src) /\ IsInvalid(constraint)
    /\ invoked = {"Overflow"} /\ result = Overflow(SaturationHandler, Dst)

\* The call was classified by the signed to unsigned specialization.
SignedToUnsignedCase == GeneralPath /\ is_signed(Src) /\ ~is_signed(Dst)

\* value is a number above the adjusted maximum of Dst.
ExceedsAdjustedMax ==
    /\ value # NaN
    /\ HalfUnits(value, Src) > HalfUnits(NarrowingRange_max(Dst, Src, SaturationHandler), Dst)

\* C12: in the signed to unsigned case, for every value that is a number,
\* the underflow flag is set for every negative integer and every
\* floating-point value <= -1; when the destination's lowest bound is zero it
\* is not set for an integer >= 0 or a floating-point value > -1, and a
\* value in (-1, 0) converts to 0; the overflow flag is set exactly when the
\* value exceeds the adjusted maximum, and never for a negative value.
C12_SignedToUnsignedFlags ==
    (Done /\ SignedToUnsignedCase /\ value # NaN)
        => /\ (is_integral(Src) /\ value < 0) => IsUnderflowFlagSet(constraint)
           /\ (is_floating_point(Src) /\ value <= Const(-1, Src))
                => IsUnderflowFlagSet(constraint)
           /\ NarrowingRange_lowest(Dst, Src, SaturationHandler) = 0
                => /\ (is_integral(Src) /\ value >= 0) => ~IsUnderflowFlagSet(constraint)
                   /\ (is_floating_point(Src) /\ value > Const(-1, Src))
                        => ~IsUnderflowFlagSet(constraint)
                   /\ (is_floating_point(Src) /\ value > Const(-1, Src) /\ value < 0)
                        => IsValid(constraint) /\ result = 0
           /\ IsOverflowFlagSet(constraint) <=> ExceedsAdjustedMax
           /\ value < 0 => ~IsOverflowFlagSet(constraint)

\* C13: static containment is sound for every pair of integer types.
\* kContained is decided by kMaxExponent (same signedness: Dst's at least
\* Src's; unsigned Src to signed Dst: Dst's strictly greater; signed Src to
\* unsigned Dst: never), and whenever it is decided every value of Src lies
\* within [numeric_limits<Dst>::lowest(), numeric_limits<Dst>::max()].
C13_StaticContainmentSound ==
    (Done /\ IntegerPair)
        => /\ (kStaticDstRangeRelationToSrcRange(Dst, Src) = "kContained")
                <=> IF is_signed(Dst) = is_signed(Src)
                    THEN kMaxExponent(Dst) >= kMaxExponent(Src)
                    ELSE is_signed(Dst) /\ kMaxExponent(Dst) > kMaxExponent(Src)
           /\ (kStaticDstRangeRelationToSrcRange(Dst, Src) = "kContained")
                => /\ WithinDstRange
                   /\ \A v \in Values(Src) :
                        /\ v >= numeric_limits_lowest(Dst)
                        /\ v <= numeric_limits_max(Dst)
                   /\ numeric_limits_lowest(Src) >= numeric_limits_lowest(Dst)
                   /\ numeric_limits_max(Src) <= numeric_limits_max(Dst)

\* C13 witness: the largest value of an unsigned type went to a wider signed
\* type that statically contains it.
C13_Witness ==
    /\ Done /\ IntegerPair
    /\ kStaticDstRangeRelationToSrcRange(Dst, Src) = "kContained"
    /\ ~is_signed(Src) /\ is_signed(Dst)
    /\ value = numeric_limits_max(Src) /\ result = value

Checked == pc = "checked"

\* IsValid() of the classifier with its default Bounds, for a value v of Src.
ClassifierIsValid(v) ==
    \A c \in DstRangeRelationToSrcRange(v, Dst, Src, "numeric_limits") : IsValid(c)

\* The fast operation that was used agrees with the classifier on the value,
\* and the signed to unsigned one rejects a negative value.
FastOpsAgree ==
    path = "IsValueInRangeFastOp"
        => /\ in_range = IsValueInRangeFastOp_Do(value, Dst, Src)
           /\ in_range <=> ClassifierIsValid(value)
           /\ (~is_signed(Dst) /\ value < 0) => ~in_range
           /\ is_signed(Dst) => (in_range <=> Wrap(value, Dst) = value)

\* C14 as stated: IsValueInRangeForNumericType<Dst>(v) is true exactly when
\* v is within [numeric_limits<Dst>::lowest(), numeric_limits<Dst>::max()],
\* and its two fast operations agree with the classifier's IsValid().
C14_InRangeExactlyWithinLimits ==
    Checked
        => /\ in_range <=> WithinDstRange
           /\ FastOpsAgree

\* C14 amended: the result is the classifier's IsValid() for every pair and
\* value, and the two fast operations agree with it.  For an integer Src it
\* is true exactly when v is within the limits of Dst.  For a floating-point
\* Src it is true also for a value in (-1, 0) going to an unsigned Dst, and
\* for every value (infinities and NaN included) going to the same
\* floating-point type, which statically contains it.
C14_InRangeMatchesClassifier ==
    Checked
        => /\ in_range <=> ClassifierIsValid(value)
           /\ FastOpsAgree
           /\ is_integral(Src) => (in_range <=> WithinDstRange)
           /\ (is_floating_point(Src) /\ is_integral(Dst))
                => (in_range <=> \/ WithinDstRange
                                 \/ /\ ~is_signed(Dst)
                                    /\ value > Const(-1, Src) /\ value < 0)
           /\ (is_floating_point(Src) /\ is_floating_point(Dst)) => in_range

\* C14 witness: the signed to unsigned fast operation rejected a negative
\* value.
C14_Witness ==
    /\ Checked /\ path = "IsValueInRangeFastOp"
    /\ is_signed(Src) /\ ~is_signed(Dst) /\ value < 0 /\ ~in_range

\* C15: kShift is 0 for every integer pair, and for a floating-point Dst.
\* When kShift is 0, Adjust returns every value of an integral Dst unchanged,
\* zero and the most negative signed value included, so the bounds the
\* classifier used are the provider's own; a floating-point bound is always
\* returned unchanged.
C15_AdjustIdentityWithoutShift ==
    (Done /\ GeneralPath)
        => /\ (IntegerPair \/ is_floating_point(Dst)) => kShift(Dst, Src) = 0
           /\ (is_integral(Dst) /\ kShift(Dst, Src) = 0)
                => /\ \A b \in Values(Dst) : Adjust(b, Dst, Src) = b
                   /\ Adjust(0, Dst, Src) = 0
                   /\ Adjust(numeric_limits_lowest(Dst), Dst, Src) = numeric_limits_lowest(Dst)
                   /\ NarrowingRange_max(Dst, Src, SaturationHandler)
                        = BoundsMax(SaturationHandler, Dst)
                   /\ NarrowingRange_lowest(Dst, Src, SaturationHandler)
                        = BoundsLowest(SaturationHandler, Dst)
           /\ is_floating_point(Dst)
                => /\ \A b \in Values(Dst) : Adjust(b, Dst, Src) = b
                   /\ NarrowingRange_max(Dst, Src, SaturationHandler)
                        = BoundsMax(SaturationHandler, Dst)
                   /\ NarrowingRange_lowest(Dst, Src, SaturationHandler)
                        = BoundsLowest(SaturationHandler, Dst)

\* C15 witness: a value below the most negative value of a signed Dst was
\* classified against that bound, which Adjust had returned unchanged.
C15_Witness ==
    /\ Done /\ GeneralPath /\ IntegerPair /\ is_signed(Dst) /\ DefaultPolicy
    /\ kShift(Dst, Src) = 0
    /\ NarrowingRange_lowest(Dst, Src, SaturationHandler) = numeric_limits_lowest(Dst)
    /\ value < numeric_limits_lowest(Dst)
    /\ IsUnderflowFlagSet(constraint) /\ result = numeric_limits_lowest(Dst)

====
